---------------------------- MODULE Spec2Model ----------------------------
(***************************************************************************)
(* Model of src/main.py: the Web3Analytics engine.                         *)
(*                                                                         *)
(* One Web3Analytics instance is constructed (Init); a caller then makes   *)
(* one call at a time.  A call action models the whole method body: it     *)
(* draws the inputs (and the values the method itself draws from the       *)
(* random module), computes the result as the code computes it and stores  *)
(* call and result; Return hands the result back and the instance waits    *)
(* for the next call.                                                      *)
(***************************************************************************)
EXTENDS Integers, Sequences, FiniteSets, TLC

VARIABLES
    self,     \* the instance attributes set by __init__
    pc,       \* "idle": waiting for a call; "returned": a call has finished
    op,       \* name of the method of the last call ("none" before any call)
    args,     \* the arguments of that call (and the random draws it made)
    result    \* what the call returned, or [raised |-> <exception name>]

vars == <<self, pc, op, args, result>>

----------------------------------------------------------------------------
(* Web3Analytics.__init__                                                  *)

supported_networks ==
    [ethereum  |-> [chain_id |-> 1,     gas_unit |-> "gwei"],
     polygon   |-> [chain_id |-> 137,   gas_unit |-> "gwei"],
     bsc       |-> [chain_id |-> 56,    gas_unit |-> "gwei"],
     arbitrum  |-> [chain_id |-> 42161, gas_unit |-> "gwei"],
     optimism  |-> [chain_id |-> 10,    gas_unit |-> "gwei"],
     avalanche |-> [chain_id |-> 43114, gas_unit |-> "nAVAX"]]

defi_protocols ==
    <<"Uniswap V3", "PancakeSwap", "SushiSwap", "Balancer",
      "Curve Finance", "Aave", "Compound", "MakerDAO">>

NoValue == [type |-> "NoneType"]

Init ==
    /\ self = [supported_networks |-> supported_networks,
               defi_protocols     |-> defi_protocols,
               price_cache        |-> <<>>,
               pool_cache         |-> <<>>,
               last_update        |-> NoValue]
    /\ pc = "idle"
    /\ op = "none"
    /\ args = <<>>
    /\ result = NoValue

(* The caller takes the result; the call's frame is gone and the instance  *)
(* is ready for the next call.                                             *)
Return ==
    /\ pc = "returned"
    /\ pc' = "idle"
    /\ op' = "none"
    /\ args' = <<>>
    /\ result' = NoValue
    /\ UNCHANGED self

----------------------------------------------------------------------------
(* validate_address                                                        *)

\* Length the code requires of an address.
AddressLen == 42

\* Characters are one-character strings; a Python str is a sequence of them.
HexDigits ==
    {"0", "1", "2", "3", "4", "5", "6", "7", "8", "9",
     "a", "b", "c", "d", "e", "f", "A", "B", "C", "D", "E", "F"}

PyStr(s) == [type |-> "str", val |-> s]

\* Python truthiness of the values the model passes as `address`.
Truthy(v) ==
    CASE v.type = "NoneType" -> FALSE
      [] v.type = "int"      -> v.val # 0
      [] v.type = "bool"     -> v.val
      [] OTHER               -> Len(v.val) > 0     \* str, bytes, list

\* str.startswith
StartsWith(s, prefix) ==
    /\ Len(s) >= Len(prefix)
    /\ SubSeq(s, 1, Len(prefix)) = prefix

\* s[n:] for n >= 0
SliceFrom(s, n) == IF n >= Len(s) THEN <<>> ELSE SubSeq(s, n + 1, Len(s))

HexOnlyLower(address) ==
    IF ~Truthy(address) \/ address.type # "str"
    THEN FALSE
    ELSE /\ StartsWith(address.val, <<"0", "x">>)
         /\ Len(address.val) = AddressLen
         /\ \A i \in 1..Len(SliceFrom(address.val, 2)) :
                SliceFrom(address.val, 2)[i] \in
                    {"0", "1", "2", "3", "4", "5", "6", "7", "8", "9",
                     "a", "b", "c", "d", "e", "f"}

validate_address(address) ==
    IF ~Truthy(address) \/ address.type # "str"
    THEN FALSE
    ELSE /\ StartsWith(address.val, <<"0", "x">>)
         /\ Len(address.val) = AddressLen
         /\ \A i \in 1..Len(SliceFrom(address.val, 2)) :
                SliceFrom(address.val, 2)[i] \in HexDigits

\* ---- inputs of validate_address ----
\* How far the length of a generated address may differ from AddressLen.
MaxLenDelta == 2

Prefixes ==
    {<<>>, <<"0">>, <<"0", "x">>, <<"0", "X">>, <<"x", "0">>, <<"1", "x">>,
     <<"x">>}

\* Hex digits at the ends of the three ranges, and their ASCII neighbours.
FillChars == {"0", "9", "a", "f", "A", "F"}
OddChars  == {"g", "G", "x", "/", ":", "@", " "}

Repeat(c, n) == [i \in 1..n |-> c]

BodyLens ==
    {0, 1} \cup {n \in (AddressLen - 2 - MaxLenDelta)..(AddressLen - 2 + MaxLenDelta) : n >= 0}

\* A body of n fill characters with one character replaced at position p
\* (p = 0: no replacement).
Body(c, n, p, d) == [i \in 1..n |-> IF i = p THEN d ELSE c]

AddressStrings ==
    { p \o Body(c, n, q, d) :
        p \in Prefixes, c \in FillChars, n \in BodyLens,
        q \in {0, 1, 20, 38, 40}, d \in OddChars \cup {"B"} }

AddressInputs ==
    { PyStr(s) : s \in AddressStrings }
    \cup { NoValue,
           [type |-> "int", val |-> 0], [type |-> "int", val |-> 42],
           [type |-> "bool", val |-> TRUE],
           [type |-> "bytes", val |-> <<"0", "x">> \o Repeat("a", AddressLen - 2)],
           [type |-> "list", val |-> <<"0", "x">> \o Repeat("a", AddressLen - 2)],
           [type |-> "list", val |-> <<>>] }

\* validate_address, were it to record the time of the call in last_update
CallValidateAddressRecording ==
    /\ pc = "idle"
    /\ \E a \in AddressInputs :
        /\ args' = <<a>>
        /\ result' = validate_address(a)
    /\ op' = "validate_address"
    /\ pc' = "returned"
    /\ self' = [self EXCEPT !.last_update = PyStr("2024-01-01T00:00:00")]

CallValidateAddress ==
    /\ pc = "idle"
    /\ \E a \in AddressInputs :
        /\ args' = <<a>>
        /\ result' = validate_address(a)
    /\ op' = "validate_address"
    /\ pc' = "returned"
    /\ UNCHANGED self

SpecAddress == Init /\ [][CallValidateAddress \/ Return]_vars

\* C1: validate_address(address) is true exactly when address is a non-empty
\* string that starts with "0x", has 42 characters in all, and has only
\* hexadecimal digits (0-9, a-f, A-F) after the first two; every other
\* input, the empty string and non-strings included, gives false.
WellFormedAddress(v) ==
    /\ v.type = "str"
    /\ Len(v.val) = 42
    /\ v.val[1] = "0"
    /\ v.val[2] = "x"
    /\ \A i \in 3..42 : v.val[i] \in HexDigits

C1_ValidateAddressIff ==
    op = "validate_address" =>
        /\ result \in BOOLEAN
        /\ result = TRUE <=> WellFormedAddress(args[1])

\* An address with upper- and lower-case digits was accepted.
C1_Witness ==
    /\ op = "validate_address"
    /\ result = TRUE
    /\ \E i \in 3..42 : args[1].val[i] = "B"
    /\ \E i \in 3..42 : args[1].val[i] = "a"

----------------------------------------------------------------------------
(* Python float: IEEE-754 binary64, round to nearest, ties to even.        *)
(*                                                                         *)
(* TLC's integers have 32 bits, so a 53-bit significand is held as a       *)
(* natural number in limbs: a sequence of digits in base 2^15, least       *)
(* significant first, without leading zero digits (zero is <<>>).          *)

LimbBits == 15
Base == 2 ^ LimbBits

\* Bits of a binary64 significand.
Precision == 53

\* Digits of a quotient: enough for Precision bits, a rounding bit and more.
QuotientDigits == Precision \div LimbBits + 1

Limb(x, i) == IF i <= Len(x) THEN x[i] ELSE 0

\* A raised exception, as the outcome of a call or of an expression.
Raised(name) == [raised |-> name]
IsRaised(v) == DOMAIN v = {"raised"}

\* The operators below use one another at many places. Each is a case of
\* the one recursive operator Call, defined after them all, and is used
\* through it, so that TLC meets each definition once instead of once for
\* each path of uses that leads to it; Call also evaluates the operands
\* before the operator. A method is called through it as well.
RECURSIVE Call(_, _)

BNorm(x)            == Call("BNorm", <<x>>)
BAdd(x, y)          == Call("BAdd", <<x, y>>)
BSub(x, y)          == Call("BSub", <<x, y>>)
BCmp(x, y)          == Call("BCmp", <<x, y>>)
BShiftLimbs(x, n)   == Call("BShiftLimbs", <<x, n>>)
BShr(x, n)          == Call("BShr", <<x, n>>)
BBitLen(x)          == Call("BBitLen", <<x>>)
FCmpMag(a, b)       == Call("FCmpMag", <<a, b>>)
FRoundBits(s, x, e, sticky, len)== Call("FRoundBits", <<s, x, e, sticky, len>>)
BMulSmall(x, k)     == Call("BMulSmall", <<x, k>>)
BMul(x, y)          == Call("BMul", <<x, y>>)
BShl(x, n)          == Call("BShl", <<x, n>>)
BDivDigit(r, d)     == Call("BDivDigit", <<r, d>>)
BDivStep(st, d)     == Call("BDivStep", <<st, d>>)
BDivIter(st, d, n)  == Call("BDivIter", <<st, d, n>>)
BDivDigits(r, d, n) == Call("BDivDigits", <<r, d, n>>)
BSqrtStep(st)       == Call("BSqrtStep", <<st>>)
BSqrtIter(st, n)    == Call("BSqrtIter", <<st, n>>)
BSqrtRem(x)         == Call("BSqrtRem", <<x>>)
BRoundShift(y, k)   == Call("BRoundShift", <<y, k>>)
FRound(s, x, e, sticky) == Call("FRound", <<s, x, e, sticky>>)
FInt(n)             == Call("FInt", <<n>>)
FMul(a, b)          == Call("FMul", <<a, b>>)
FDiv(a, b)          == Call("FDiv", <<a, b>>)
FAdd(a, b)          == Call("FAdd", <<a, b>>)
FSqrt(a)            == Call("FSqrt", <<a>>)
FRatio(p, q)        == Call("FRatio", <<p, q>>)
FScaled(x, ndigits) == Call("FScaled", <<x, ndigits>>)
FSum(xs)            == Call("FSum", <<xs>>)
PyRound(x, ndigits) == Call("PyRound", <<x, ndigits>>)
DecimalFromStr(x)   == Call("DecimalFromStr", <<x>>)
FNeg(a)             == Call("FNeg", <<a>>)
FAbs(a)             == Call("FAbs", <<a>>)
FCmp(a, b)          == Call("FCmp", <<a, b>>)
FSub(a, b)          == Call("FSub", <<a, b>>)
FSquare(x)          == Call("FSquare", <<x>>)
PyTrueDiv(a, b)     == Call("PyTrueDiv", <<a, b>>)
PyMax(a, b)         == Call("PyMax", <<a, b>>)
PyMin(a, b)         == Call("PyMin", <<a, b>>)
DecimalToFloat(d)   == Call("DecimalToFloat", <<d>>)
DecimalMul(a, b)    == Call("DecimalMul", <<a, b>>)
DecimalAdd(a, b)    == Call("DecimalAdd", <<a, b>>)
DecimalSub(a, b)    == Call("DecimalSub", <<a, b>>)
DecimalSum(ds)      == Call("DecimalSum", <<ds>>)

FLt(a, b) == FCmp(a, b) < 0
FLe(a, b) == FCmp(a, b) <= 0
FGt(a, b) == FCmp(a, b) > 0
FEq(a, b) == FCmp(a, b) = 0

\* x without its leading zero digits
BNormOf(x) ==
    LET nz == {i \in 1..Len(x) : x[i] # 0}
    IN  IF nz = {} THEN <<>>
        ELSE SubSeq(x, 1, CHOOSE i \in nz : \A j \in nz : j <= i)

RECURSIVE BFromInt(_)
BFromInt(n) == IF n = 0 THEN <<>> ELSE <<n % Base>> \o BFromInt(n \div Base)

\* x + y.  The carry into digit i is 1 exactly when some lower digit pair
\* overflows and every pair between it and i sums to Base - 1.
BAddOf(x, y) ==
    LET n    == IF Len(x) > Len(y) THEN Len(x) ELSE Len(y)
        S(i) == Limb(x, i) + Limb(y, i)
        C(i) == IF \E j \in 1..(i - 1) :
                      /\ S(j) >= Base
                      /\ \A k \in (j + 1)..(i - 1) : S(k) = Base - 1
                THEN 1 ELSE 0
    IN  BNorm([i \in 1..(n + 1) |-> (S(i) + C(i)) % Base])

\* x - y for x >= y.  The borrow from digit i is 1 exactly when some lower
\* digit of x is below that of y and the digits between are equal.
BSubOf(x, y) ==
    LET B(i) == IF \E j \in 1..(i - 1) :
                      /\ x[j] < Limb(y, j)
                      /\ \A k \in (j + 1)..(i - 1) : x[k] = Limb(y, k)
                THEN 1 ELSE 0
    IN  BNorm([i \in 1..Len(x) |-> (x[i] - Limb(y, i) - B(i) + Base) % Base])

\* -1, 0, 1 as x <, =, > y
BCmpOf(x, y) ==
    IF Len(x) < Len(y) THEN -1
    ELSE IF Len(x) > Len(y) THEN 1
    ELSE LET d == {i \in 1..Len(x) : x[i] # y[i]}
         IN  IF d = {} THEN 0
             ELSE LET h == CHOOSE i \in d : \A j \in d : j <= i
                  IN  IF x[h] < y[h] THEN -1 ELSE 1

BShiftLimbsOf(x, n) == IF x = <<>> THEN <<>> ELSE [j \in 1..n |-> 0] \o x

\* floor(x / 2^n)
BShrOf(x, n) ==
    LET d == n \div LimbBits
        r == n % LimbBits
        y == IF d >= Len(x) THEN <<>> ELSE SubSeq(x, d + 1, Len(x))
    IN  BNorm([i \in 1..Len(y) |->
                 (y[i] \div 2 ^ r) + (Limb(y, i + 1) % 2 ^ r) * 2 ^ (LimbBits - r)])

BitLenSmall(v) == CHOOSE n \in 1..LimbBits : 2 ^ (n - 1) <= v /\ v < 2 ^ n

BBitLenOf(x) ==
    IF x = <<>> THEN 0 ELSE LimbBits * (Len(x) - 1) + BitLenSmall(x[Len(x)])

BOdd(x) == x # <<>> /\ x[1] % 2 = 1

\* The integer a natural number of at most two digits stands for.
BToInt(x) == Limb(x, 1) + Limb(x, 2) * Base

\* A finite float is (-1)^s * m * 2^e with m = 0 or 2^52 <= m < 2^53.
\* (The exponent range is not modelled: the values the model computes with
\* stay far from overflow and from the subnormal range.)
Float(s, m, e) == [s |-> s, m |-> m, e |-> e]

FZero == Float(0, <<>>, 0)


\* decimal.Decimal: coef * 10^exp, exactly (the sums of the model stay far
\* below the 28 digits of the default context).
Decimal(coef, exp) == [coef |-> coef, exp |-> exp]

\* The floats of the model have at most DecimalPlaces decimal places.
DecimalPlaces == 2

FNegOf(a) == IF a.m = <<>> THEN a ELSE Float(1 - a.s, a.m, a.e)
FAbsOf(a) == Float(0, a.m, a.e)
FSigned(x, n) == IF x.s = 1 THEN -n ELSE n

\* -1, 0, 1 as |a| <, =, > |b|
FCmpMagOf(a, b) ==
    IF a.m = <<>> \/ b.m = <<>>
    THEN (IF a.m = b.m THEN 0 ELSE IF a.m = <<>> THEN -1 ELSE 1)
    ELSE IF a.e < b.e THEN -1
    ELSE IF a.e > b.e THEN 1
    ELSE BCmp(a.m, b.m)

\* -1, 0, 1 as a <, =, > b
FCmpOf(a, b) ==
    LET sa == IF a.m = <<>> THEN 0 ELSE IF a.s = 1 THEN -1 ELSE 1
        sb == IF b.m = <<>> THEN 0 ELSE IF b.s = 1 THEN -1 ELSE 1
    IN  IF sa < sb THEN -1
        ELSE IF sa > sb THEN 1
        ELSE IF sa = 0 THEN 0
        ELSE sa * FCmpMag(a, b)


FSubOf(a, b) == FAdd(a, FNeg(b))

\* x * k for 0 <= k <= Base: the low halves of the digit products plus the
\* high halves one digit up
BMulSmallOf(x, k) ==
    BAdd(BNorm([i \in 1..Len(x) |-> (x[i] * k) % Base]),
         BShiftLimbs(BNorm([i \in 1..Len(x) |-> (x[i] * k) \div Base]), 1))

RECURSIVE BMulAt(_, _, _)
BMulAt(x, y, i) ==
    IF i > Len(y) THEN <<>>
    ELSE BAdd(BShiftLimbs(BMulSmall(x, y[i]), i - 1), BMulAt(x, y, i + 1))

BMulOf(x, y) == BMulAt(x, y, 1)

\* x * 2^n
BShlOf(x, n) == BShiftLimbs(BMulSmall(x, 2 ^ (n % LimbBits)), n \div LimbBits)

\* Long division by d, a Precision-bit number, one digit at a time.
\* floor(r / d) for r < d * Base: it lies between the quotients of the
\* leading bits of r by those of d rounded up and rounded down.
BDivDigitOf(r, d) ==
    LET rtop == BToInt(BShr(r, Precision - LimbBits))
        dtop == BToInt(BShr(d, Precision - LimbBits))
        lo   == rtop \div (dtop + 1)
        hi   == IF (rtop + 1) \div dtop < Base THEN (rtop + 1) \div dtop
                ELSE Base - 1
    IN  CHOOSE c \in lo..hi :
            /\ BCmp(BMulSmall(d, c), r) <= 0
            /\ BCmp(BMulSmall(d, c + 1), r) > 0

\* One more quotient digit: st = <<quotient, remainder>>.
BDivStepOf(st, d) ==
    LET r == BShiftLimbs(st[2], 1)
        c == BDivDigit(r, d)
    IN  <<IF st[1] = <<>> /\ c = 0 THEN <<>> ELSE <<c>> \o st[1],
          BSub(r, BMulSmall(d, c))>>

BDivIterOf(st, d, n) ==
    IF n = 0 THEN st ELSE BDivIter(BDivStep(st, d), d, n - 1)

\* <<floor(r * Base^n / d), remainder>> for r < 2 d
BDivDigitsOf(r, d, n) ==
    IF BCmp(r, d) >= 0
    THEN BDivIter(<<<<1>>, BSub(r, d)>>, d, n)
    ELSE BDivIter(<<<<>>, r>>, d, n)

\* One step of the digit-by-digit integer square root:
\* st = <<remainder, root so far, bit>>, bit a power of 4.
BSqrtStepOf(st) ==
    LET t == BAdd(st[2], st[3])
    IN  IF BCmp(st[1], t) >= 0
        THEN <<BSub(st[1], t), BAdd(BShr(st[2], 1), st[3]), BShr(st[3], 2)>>
        ELSE <<st[1], BShr(st[2], 1), BShr(st[3], 2)>>

\* n steps, as two halves (the nesting is the logarithm of n)
BSqrtIterOf(st, n) ==
    IF n = 0 THEN st
    ELSE IF n = 1 THEN BSqrtStep(st)
    ELSE BSqrtIter(BSqrtIter(st, n \div 2), n - n \div 2)

\* <<floor(sqrt(x)), x - floor(sqrt(x))^2>>
BSqrtRemOf(x) ==
    IF x = <<>> THEN <<x, x>>
    ELSE LET h  == (BBitLen(x) - 1) \div 2
             st == BSqrtIter(<<x, <<>>, BShl(<<1>>, 2 * h)>>, h + 1)
         IN  <<st[2], st[1]>>

\* y / 2^k for k >= 1, rounded to the nearest integer, ties to even
BRoundShiftOf(y, k) ==
    LET q == BShr(y, k)
        c == BCmp(BSub(y, BShl(q, k)), BShl(<<1>>, k - 1))
    IN  IF c > 0 \/ (c = 0 /\ BOdd(q)) THEN BAdd(q, <<1>>) ELSE q

\* The float nearest to (-1)^s * (x + f) * 2^e, where 0 <= f < 1 and
\* sticky says f > 0; x has more than Precision bits whenever sticky.
FRoundBitsOf(s, x, e, sticky, len) ==
    IF len <= Precision
    THEN Float(s, BShl(x, Precision - len), e - (Precision - len))
    ELSE LET sh   == len - Precision
             kept == BShr(x, sh)
             c    == BCmp(BSub(x, BShl(kept, sh)), BShl(<<1>>, sh - 1))
             up   == c > 0 \/ (c = 0 /\ (sticky \/ BOdd(kept)))
             k2   == IF up THEN BAdd(kept, <<1>>) ELSE kept
         IN  IF BBitLen(k2) > Precision
             THEN Float(s, BShr(k2, 1), e + sh + 1)
             ELSE Float(s, k2, e + sh)

FRoundOf(s, x, e, sticky) ==
    IF x = <<>> THEN FZero ELSE FRoundBits(s, x, e, sticky, BBitLen(x))

\* float(n) for an integer n
FIntOf(n) == FRound(IF n < 0 THEN 1 ELSE 0,
                    BFromInt(IF n < 0 THEN -n ELSE n), 0, FALSE)

\* a * b
FMulOf(a, b) ==
    LET s == IF a.s = b.s THEN 0 ELSE 1
    IN  IF a.m = <<>> \/ b.m = <<>> THEN Float(s, <<>>, 0)
        ELSE FRound(s, BMul(a.m, b.m), a.e + b.e, FALSE)

\* a / b for b # 0
FDivOf(a, b) ==
    LET s  == IF a.s = b.s THEN 0 ELSE 1
        qr == BDivDigits(a.m, b.m, QuotientDigits)
    IN  IF a.m = <<>> THEN Float(s, <<>>, 0)
        ELSE FRound(s, qr[1], a.e - b.e - QuotientDigits * LimbBits,
                    qr[2] # <<>>)

\* a + b
FAddOf(a, b) ==
    IF a.m = <<>> THEN (IF b.m = <<>> /\ a.s # b.s THEN FZero ELSE b)
    ELSE IF b.m = <<>> THEN a
    ELSE LET e == IF a.e < b.e THEN a.e ELSE b.e
             p == BShl(a.m, a.e - e)
             q == BShl(b.m, b.e - e)
             c == BCmp(p, q)
         IN  IF a.s = b.s THEN FRound(a.s, BAdd(p, q), e, FALSE)
             ELSE IF c = 0 THEN FZero
             ELSE IF c > 0 THEN FRound(a.s, BSub(p, q), e, FALSE)
             ELSE FRound(b.s, BSub(q, p), e, FALSE)

\* The correctly rounded square root of a >= 0.
FSqrtOf(a) ==
    IF a.m = <<>> THEN a
    ELSE LET k  == IF (a.e - (Precision + 1)) % 2 = 0
                   THEN Precision + 1 ELSE Precision + 2
             sr == BSqrtRem(BShl(a.m, k))
         IN  FRound(0, sr[1], (a.e - k) \div 2, sr[2] # <<>>)

\* The float p / q of two small integers: the model's float literals and
\* inputs (1.5 is FRatio(3, 2), 0.02 is FRatio(2, 100)).
FRatioOf(p, q) == FDiv(FInt(p), FInt(q))

\* The left-to-right sum() of a list of floats, from int 0
RECURSIVE FSumUpTo(_, _)
FSumUpTo(xs, n) ==
    IF n = 0 THEN FZero ELSE FAdd(FSumUpTo(xs, n - 1), xs[n])

FSumOf(xs) == FSumUpTo(xs, Len(xs))

\* |x| * 10^ndigits rounded to the nearest integer, ties to even
FScaledOf(x, ndigits) ==
    IF x.m = <<>> THEN <<>>
    ELSE IF x.e >= 0 THEN BShl(BMulSmall(x.m, 10 ^ ndigits), x.e)
    ELSE BRoundShift(BMulSmall(x.m, 10 ^ ndigits), -x.e)

\* round(x, ndigits): the float nearest to the decimal of ndigits places
\* that is nearest to x. An exception stays one.
PyRoundOf(x, ndigits) ==
    IF IsRaised(x) THEN x
    ELSE IF x.m = <<>> \/ x.e >= 0 THEN x
    ELSE LET n == FScaled(x, ndigits)
         IN  IF n = <<>> THEN Float(x.s, <<>>, 0)
             ELSE FDiv(FRound(x.s, n, 0, FALSE), FInt(10 ^ ndigits))

\* Decimal(str(x)). str(x) is the shortest decimal that reads back as x,
\* with at least one place after the point.
DecimalFromStrOf(x) ==
    LET coef(k)  == FSigned(x, BToInt(FScaled(x, k)))
        reads(k) == FEq(FRatio(coef(k), 10 ^ k), x)
        places   == CHOOSE k \in 1..DecimalPlaces :
                        reads(k) /\ \A j \in 1..(k - 1) : ~reads(j)
    IN  Decimal(coef(places), -places)

\* a / b, which raises on a zero divisor
PyTrueDivOf(a, b) ==
    IF IsRaised(a) THEN a
    ELSE IF IsRaised(b) THEN b
    ELSE IF b.m = <<>> THEN Raised("ZeroDivisionError")
    ELSE FDiv(a, b)

\* x ** 2
FSquareOf(x) == FMul(x, x)

\* Decimal arithmetic
DecimalCoefAt(d, exp) == d.coef * 10 ^ (d.exp - exp)

DecimalMulOf(a, b) == Decimal(a.coef * b.coef, a.exp + b.exp)

DecimalAddOf(a, b) ==
    LET exp == IF a.exp < b.exp THEN a.exp ELSE b.exp
    IN  Decimal(DecimalCoefAt(a, exp) + DecimalCoefAt(b, exp), exp)

DecimalSubOf(a, b) == DecimalAdd(a, Decimal(-b.coef, b.exp))

RECURSIVE DecimalSumUpTo(_, _)
DecimalSumUpTo(ds, n) ==
    IF n = 0 THEN Decimal(0, 0)
    ELSE DecimalAdd(DecimalSumUpTo(ds, n - 1), ds[n])

DecimalSumOf(ds) == DecimalSumUpTo(ds, Len(ds))

\* float(d): the float nearest to d
DecimalToFloatOf(d) == FRatio(d.coef, 10 ^ (-d.exp))

\* max(a, b) and min(a, b) of Python: the first argument unless the second
\* is strictly greater (strictly less).
PyMaxOf(a, b) == IF FGt(b, a) THEN b ELSE a
PyMinOf(a, b) == IF FLt(b, a) THEN b ELSE a

----------------------------------------------------------------------------
(* calculate_impermanent_loss                                              *)

\* x ** 0.5 for x >= 0.  CPython hands this to the C library's pow(); the
\* model takes its result to be the correctly rounded square root.
FPowHalf(x) == FSqrt(x)

GuardFlipped(initial_price_ratio, current_price_ratio) ==
    IF FGt(initial_price_ratio, FZero) \/ FGt(current_price_ratio, FZero)
    THEN FZero
    ELSE FInt(100)

\* calculate_impermanent_loss with the test for a non-positive ratio made
\* strict (< 0 for <= 0)
GuardStrict(initial_price_ratio, current_price_ratio) ==
    IF FLt(initial_price_ratio, FZero) \/ FLt(current_price_ratio, FZero)
    THEN FZero
    ELSE
      LET price_change_ratio ==
              PyTrueDiv(current_price_ratio, initial_price_ratio)
          sqrt_ratio == FPowHalf(price_change_ratio)
          quotient ==
              PyTrueDiv(FMul(FInt(2), sqrt_ratio),
                        FAdd(FInt(1), price_change_ratio))
      IN  IF IsRaised(price_change_ratio) THEN price_change_ratio
          ELSE IF IsRaised(quotient) THEN quotient
          ELSE FMul(FAbs(FSub(quotient, FInt(1))), FInt(100))

\* calculate_impermanent_loss without the "- 1" of the formula
LossWithoutHold(initial_price_ratio, current_price_ratio) ==
    IF FLe(initial_price_ratio, FZero) \/ FLe(current_price_ratio, FZero)
    THEN FZero
    ELSE
      LET price_change_ratio ==
              PyTrueDiv(current_price_ratio, initial_price_ratio)
          sqrt_ratio == FPowHalf(price_change_ratio)
          quotient ==
              PyTrueDiv(FMul(FInt(2), sqrt_ratio),
                        FAdd(FInt(1), price_change_ratio))
      IN  IF IsRaised(price_change_ratio) THEN price_change_ratio
          ELSE IF IsRaised(quotient) THEN quotient
          ELSE FMul(FAbs(quotient), FInt(100))

\* The float the call returns, or the exception it raises: each of the two
\* divisions raises ZeroDivisionError on a zero divisor.
calculate_impermanent_loss(initial_price_ratio, current_price_ratio) ==
    IF FLe(initial_price_ratio, FZero) \/ FLe(current_price_ratio, FZero)
    THEN FZero
    ELSE
      LET price_change_ratio ==
              PyTrueDiv(current_price_ratio, initial_price_ratio)
          sqrt_ratio == FPowHalf(price_change_ratio)
          quotient ==
              PyTrueDiv(FMul(FInt(2), sqrt_ratio),
                        FAdd(FInt(1), price_change_ratio))
          impermanent_loss == FSub(quotient, FInt(1))
      IN  IF IsRaised(price_change_ratio) THEN price_change_ratio
          ELSE IF IsRaised(quotient) THEN quotient
          ELSE FMul(FAbs(impermanent_loss), FInt(100))

\* ---- inputs of calculate_impermanent_loss ----
\* Price ratios are the multiples of 1/2 up to MaxRatioNum/2, the ratios
\* 0.1 and 1/3, and the non-positive values 0 and -1.
MaxRatioNum == 9

RatioInputs ==
    {FRatio(p, 2) : p \in 1..MaxRatioNum}
        \cup {FRatio(1, 10), FRatio(1, 3), FInt(0), FInt(-1)}

CallImpermanentLoss ==
    /\ pc = "idle"
    /\ \E a \in RatioInputs, b \in RatioInputs :
        /\ args' = <<a, b>>
        /\ result' = Call("calculate_impermanent_loss", <<a, b>>)
    /\ op' = "calculate_impermanent_loss"
    /\ pc' = "returned"
    /\ UNCHANGED self

SpecImpermanentLoss == Init /\ [][CallImpermanentLoss \/ Return]_vars

\* C2: calculate_impermanent_loss is not symmetric in its arguments: there
\* are positive ratios a and b with calculate_impermanent_loss(a, b) #
\* calculate_impermanent_loss(b, a).  The ratios 1.0 and 1.5 are such a
\* pair: whichever of the two is the initial ratio, the call's result
\* differs from the result of the call with the arguments exchanged.
C2_NotSymmetric ==
    (/\ op = "calculate_impermanent_loss"
     /\ {args[1], args[2]} = {FRatio(2, 2), FRatio(3, 2)})
    => ~FEq(result, calculate_impermanent_loss(args[2], args[1]))

\* The call with initial ratio 1.0 and current ratio 1.5 returned a loss
\* other than that of the exchanged call.
C2_Witness ==
    /\ op = "calculate_impermanent_loss"
    /\ args = <<FRatio(2, 2), FRatio(3, 2)>>
    /\ FGt(result, FZero)
    /\ ~FEq(result, calculate_impermanent_loss(args[2], args[1]))

C11_WitnessCurrent ==
    /\ op = "calculate_impermanent_loss"
    /\ pc = "returned"
    /\ args = <<FRatio(3, 2), FInt(-1)>>
    /\ result = FZero

\* C12: calculate_impermanent_loss(r, r) is 0 for every r > 0.
C12_UnchangedRatioNoLoss ==
    (/\ op = "calculate_impermanent_loss"
     /\ pc = "returned"
     /\ args[1] = args[2]
     /\ FGt(args[1], FZero))
    => result = FZero

\* The call with both ratios 0.1, which no float holds exactly, returned 0.
C12_Witness ==
    /\ op = "calculate_impermanent_loss"
    /\ pc = "returned"
    /\ args = <<FRatio(1, 10), FRatio(1, 10)>>
    /\ result = FZero

----------------------------------------------------------------------------
(* calculate_portfolio_metrics and its helpers                             *)

\* PortfolioPosition
Position(token, amount, entry_price, current_price, pnl, allocation_percentage) ==
    [token |-> token, amount |-> amount, entry_price |-> entry_price,
     current_price |-> current_price, pnl |-> pnl,
     allocation_percentage |-> allocation_percentage]


\* max(positions, key=..., default=...): a default position instead of
\* ValueError for no positions.
MaxOrDefault(positions) ==
    IF positions = <<>>
    THEN Position("", Decimal(0, 0), FZero, FZero, FZero, FZero)
    ELSE positions[CHOOSE i \in 1..Len(positions) :
           /\ \A j \in 1..Len(positions) :
                FLe(positions[j].allocation_percentage,
                    positions[i].allocation_percentage)
           /\ \A j \in 1..(i - 1) :
                FLt(positions[j].allocation_percentage,
                    positions[i].allocation_percentage)]

\* max(positions, key=lambda x: x.allocation_percentage): the first of the
\* positions with the largest allocation; ValueError for no positions.
MaxByAllocation(positions) ==
    IF positions = <<>> THEN Raised("ValueError")
    ELSE positions[CHOOSE i \in 1..Len(positions) :
           /\ \A j \in 1..Len(positions) :
                FLe(positions[j].allocation_percentage,
                    positions[i].allocation_percentage)
           /\ \A j \in 1..(i - 1) :
                FLt(positions[j].allocation_percentage,
                    positions[i].allocation_percentage)]

_calculate_volatility(returns) ==
    IF Len(returns) < 2 THEN FZero
    ELSE LET mean_return == FDiv(FSum(returns), FInt(Len(returns)))
             variance ==
                 FDiv(FSum([i \in 1..Len(returns) |->
                             FSquare(FSub(returns[i], mean_return))]),
                      FInt(Len(returns) - 1))
         IN  FPowHalf(variance)

risk_free_rate == FRatio(2, 100)

\* _calculate_sharpe_ratio without the test for a zero volatility
SharpeUnguarded(returns) ==
    IF returns = <<>> THEN FZero
    ELSE LET mean_return == FDiv(FSum(returns), FInt(Len(returns)))
             volatility  == _calculate_volatility(returns)
         IN  PyTrueDiv(FSub(mean_return, risk_free_rate), volatility)

_calculate_sharpe_ratio(returns) ==
    IF returns = <<>> THEN FZero
    ELSE LET mean_return == FDiv(FSum(returns), FInt(Len(returns)))
             volatility  == _calculate_volatility(returns)
         IN  IF FEq(volatility, FZero) THEN FZero
             ELSE PyTrueDiv(FSub(mean_return, risk_free_rate), volatility)

\* _calculate_diversification_score without the clamp
DiversificationUnclamped(positions) ==
    IF positions = <<>> THEN FZero
    ELSE LET hhi == FDiv(FSum([i \in 1..Len(positions) |->
                                 FSquare(positions[i].allocation_percentage)]),
                         FInt(10000))
         IN  FMul(FSub(FInt(1), hhi), FInt(100))

_calculate_diversification_score(positions) ==
    IF positions = <<>> THEN FZero
    ELSE LET hhi == FDiv(FSum([i \in 1..Len(positions) |->
                                 FSquare(positions[i].allocation_percentage)]),
                         FInt(10000))
             diversification_score == FMul(FSub(FInt(1), hhi), FInt(100))
         IN  PyMin(PyMax(diversification_score, FInt(0)), FInt(100))

\* The dict calculate_portfolio_metrics returns at time now, or the
\* exception it raises. (An int 0 result is written as the float 0.0.)
calculate_portfolio_metrics(positions, now) ==
    LET total_value ==
            DecimalSum([i \in 1..Len(positions) |->
                DecimalMul(positions[i].amount,
                           DecimalFromStr(positions[i].current_price))])
        total_invested ==
            DecimalSum([i \in 1..Len(positions) |->
                DecimalMul(positions[i].amount,
                           DecimalFromStr(positions[i].entry_price))])
        portfolio_pnl == DecimalToFloat(DecimalSub(total_value, total_invested))
        portfolio_pnl_percentage ==
            IF total_invested.coef > 0
            THEN LET q == PyTrueDiv(portfolio_pnl, DecimalToFloat(total_invested))
                 IN  IF IsRaised(q) THEN q ELSE FMul(q, FInt(100))
            ELSE FZero
        daily_returns == [i \in 1..Len(positions) |-> positions[i].pnl]
        volatility    == _calculate_volatility(daily_returns)
        sharpe_ratio  == _calculate_sharpe_ratio(daily_returns)
        largest       == MaxByAllocation(positions)
    IN  IF IsRaised(portfolio_pnl_percentage) THEN portfolio_pnl_percentage
        ELSE IF IsRaised(sharpe_ratio) THEN sharpe_ratio
        ELSE IF IsRaised(largest) THEN largest
        ELSE [total_value           |-> DecimalToFloat(total_value),
              total_invested        |-> DecimalToFloat(total_invested),
              unrealized_pnl        |-> portfolio_pnl,
              pnl_percentage        |-> PyRound(portfolio_pnl_percentage, 2),
              position_count        |-> Len(positions),
              volatility            |-> PyRound(volatility, 4),
              sharpe_ratio          |-> PyRound(sharpe_ratio, 4),
              largest_position      |-> largest.token,
              diversification_score |-> _calculate_diversification_score(positions),
              last_updated          |-> now]

\* ---- inputs of calculate_portfolio_metrics ----
\* Portfolios of up to MaxPositions positions, in three families: one
\* varies the amounts and prices, one the pnl values, one the allocations.
MaxPositions == 4

Tokens == <<"ETH", "BTC", "USDC", "LINK", "UNI", "AAVE">>

\* Amounts -1, 0, 1.5 and 2; prices 0.0, 3.0, 3.37 and 5.0
Amounts == {Decimal(-1, 0), Decimal(0, 0), Decimal(15, -1), Decimal(2, 0)}
Prices  == {FRatio(0, 1), FRatio(3, 1), FRatio(337, 100), FRatio(5, 1)}

\* pnl values -2.5, 0.0, 0.02, 2.5 and 1000.0
Pnls == {FRatio(-25, 10), FRatio(0, 1), FRatio(2, 100), FRatio(25, 10),
         FRatio(1000, 1)}

\* allocation percentages, each within 0..100
Allocations == {FInt(0), FInt(25), FInt(30), FInt(50), FInt(100)}

ValuePosition(i, amount, entry_price, current_price) ==
    Position(Tokens[i], amount, entry_price, current_price, FRatio(25, 10), FInt(50))

PnlPosition(i, pnl) ==
    Position(Tokens[i], Decimal(1, 0), FRatio(3, 1), FRatio(5, 1), pnl, FInt(50))

AllocationPosition(i, allocation_percentage) ==
    Position(Tokens[i], Decimal(1, 0), FRatio(3, 1), FRatio(5, 1), FRatio(25, 10),
             allocation_percentage)

ValuePortfolios ==
    {<<ValuePosition(1, a, e, c)>> : a \in Amounts, e \in Prices, c \in Prices}
    \cup {<<ValuePosition(1, a, e, c), ValuePosition(2, b, c, e)>> :
            a \in Amounts, b \in Amounts, e \in {FRatio(3, 1)},
            c \in {FRatio(3, 1), FRatio(5, 1)}}

PnlPortfolios ==
    {<<PnlPosition(1, p)>> : p \in Pnls}
    \cup {<<PnlPosition(1, p), PnlPosition(2, q)>> : p \in Pnls, q \in Pnls}

AllocationPortfolios ==
    {<<AllocationPosition(1, a)>> : a \in Allocations}
    \cup {<<AllocationPosition(1, a), AllocationPosition(2, b)>> :
            a \in Allocations, b \in Allocations}
    \cup {[i \in 1..n |-> AllocationPosition(i, a)] :
            n \in 3..MaxPositions, a \in Allocations}

Portfolios ==
    {<<>>} \cup ValuePortfolios \cup PnlPortfolios \cup AllocationPortfolios

\* datetime.datetime.now().isoformat()
Clock == {"2024-01-01T00:00:00", "2024-01-01T00:00:01"}

CallPortfolioMetrics ==
    /\ pc = "idle"
    /\ \E positions \in Portfolios, now \in Clock :
         /\ args' = <<positions>>
         /\ result' = Call("calculate_portfolio_metrics", <<positions, now>>)
    /\ op' = "calculate_portfolio_metrics"
    /\ pc' = "returned"
    /\ UNCHANGED self

SpecPortfolio == Init /\ [][CallPortfolioMetrics \/ Return]_vars

\* ---- what the claims compare the report with ----
\* Exact arithmetic in thousandths: amounts have at most one decimal place,
\* prices at most two.
AmountTenths(amount) == amount.coef * 10 ^ (amount.exp + 1)
Hundredths(x) == FSigned(x, BToInt(FScaled(x, 2)))

RECURSIVE ThousandthsUpTo(_, _, _)
ThousandthsUpTo(positions, price(_), n) ==
    IF n = 0 THEN 0
    ELSE ThousandthsUpTo(positions, price, n - 1)
         + AmountTenths(positions[n].amount) * Hundredths(price(positions[n]))

ValueThousandths(positions) ==
    ThousandthsUpTo(positions, LAMBDA pos : pos.current_price, Len(positions))
InvestedThousandths(positions) ==
    ThousandthsUpTo(positions, LAMBDA pos : pos.entry_price, Len(positions))

AbsInt(n) == IF n < 0 THEN -n ELSE n

\* x is 100 * num / den rounded to 2 decimals, for den > 0: x is the float
\* of n / 100 for an integer n within one half of 10000 * num / den.
RoundedPercentOf(x, num, den) ==
    \E n \in {(10000 * num) \div den, (10000 * num) \div den + 1} :
        /\ FEq(x, FRatio(n, 100))
        /\ 2 * AbsInt(n * den - 10000 * num) <= den

RoundedPercent(x, num, den) ==
    IF den > 0 THEN RoundedPercentOf(x, num, den)
    ELSE RoundedPercentOf(x, -num, -den)

\* x is within 10^-9 of p / q
CloseTo(x, p, q) ==
    FLe(FAbs(FSub(x, FRatio(p, q))), FRatio(1, 1000000000))

IsPortfolioCall == op = "calculate_portfolio_metrics"

\* C3, for total_invested > 0 and for total_invested = 0: the report has
\* total_value = sum(amount_i * current_price_i), total_invested =
\* sum(amount_i * entry_price_i) and unrealized_pnl their difference, each
\* as the nearest float; pnl_percentage is unrealized_pnl / total_invested
\* * 100 rounded to 2 decimals when total_invested > 0, and 0 with no
\* ZeroDivisionError when total_invested = 0.
C3_PnlOfPositiveOrZeroInvestment ==
    (IsPortfolioCall /\ args[1] # <<>>) =>
        LET value    == ValueThousandths(args[1])
            invested == InvestedThousandths(args[1])
        IN  /\ ~IsRaised(result)
            /\ FEq(result.total_value, FRatio(value, 1000))
            /\ FEq(result.total_invested, FRatio(invested, 1000))
            /\ FEq(result.unrealized_pnl, FRatio(value - invested, 1000))
            /\ invested > 0 =>
                 RoundedPercent(result.pnl_percentage, value - invested, invested)
            /\ invested = 0 => FEq(result.pnl_percentage, FZero)

\* C3 as stated: as above, and pnl_percentage is unrealized_pnl /
\* total_invested * 100 rounded to 2 decimals whenever total_invested is
\* not 0, a negative total_invested included.
C3_PnlPercentageWheneverNotZero ==
    (IsPortfolioCall /\ args[1] # <<>>) =>
        LET value    == ValueThousandths(args[1])
            invested == InvestedThousandths(args[1])
        IN  /\ ~IsRaised(result)
            /\ FEq(result.unrealized_pnl, FRatio(value - invested, 1000))
            /\ invested # 0 =>
                 RoundedPercent(result.pnl_percentage, value - invested, invested)
            /\ invested = 0 => FEq(result.pnl_percentage, FZero)

\* A report of a negative total_invested: a pnl that is not 0 and a
\* pnl_percentage of 0.
C3_Witness ==
    /\ IsPortfolioCall
    /\ ~IsRaised(result)
    /\ InvestedThousandths(args[1]) < 0
    /\ ~FEq(result.unrealized_pnl, FZero)
    /\ FEq(result.pnl_percentage, FZero)

\* Reports of a positive total_invested with a pnl_percentage of 12.33,
\* and of a total_invested of 0 with a pnl that is not 0.
C3_WitnessPositiveInvested ==
    /\ IsPortfolioCall
    /\ ~IsRaised(result)
    /\ InvestedThousandths(args[1]) > 0
    /\ FEq(result.pnl_percentage, FRatio(1233, 100))

C3_WitnessZeroInvested ==
    /\ IsPortfolioCall
    /\ ~IsRaised(result)
    /\ InvestedThousandths(args[1]) = 0
    /\ FGt(result.unrealized_pnl, FZero)
    /\ FEq(result.pnl_percentage, FZero)

C4_WitnessReport ==
    /\ IsPortfolioCall
    /\ Len(args[1]) = MaxPositions
    /\ ~IsRaised(result)

\* The sum of the squares of the allocation percentages (whole numbers).
RECURSIVE SquaresUpTo(_, _)
SquaresUpTo(positions, n) ==
    IF n = 0 THEN 0
    ELSE SquaresUpTo(positions, n - 1)
         + BToInt(FScaled(positions[n].allocation_percentage, 0)) ^ 2

SumOfSquares(positions) == SquaresUpTo(positions, Len(positions))

\* C9: for a non-empty list of positions the diversification score is
\* (1 - sum((allocation_i / 100)^2)) * 100 clamped into [0, 100]: never
\* below 0 or above 100, 0 whenever the squared shares sum to 1 or more
\* (a single position of 100% included), the expression itself (up to
\* float rounding) otherwise, and exactly 75 for four positions of 25%.
C9_DiversificationClamped ==
    (IsPortfolioCall /\ args[1] # <<>>) =>
        LET score   == result.diversification_score
            squares == SumOfSquares(args[1])
        IN  /\ FLe(FInt(0), score) /\ FLe(score, FInt(100))
            /\ squares >= 10000 => FEq(score, FInt(0))
            /\ squares < 10000 => CloseTo(score, 10000 - squares, 100)
            /\ (/\ Len(args[1]) = 4
                /\ \A i \in 1..4 : FEq(args[1][i].allocation_percentage, FInt(25)))
               => FEq(score, FInt(75))

\* Allocations of 100% and 50%: squared shares of 1.25, and a score of 0.
C9_Witness ==
    /\ IsPortfolioCall
    /\ Len(args[1]) = 2
    /\ SumOfSquares(args[1]) = 12500
    /\ FEq(result.diversification_score, FInt(0))

C9_WitnessFourQuarters ==
    /\ IsPortfolioCall
    /\ Len(args[1]) = 4
    /\ \A i \in 1..4 : FEq(args[1][i].allocation_percentage, FInt(25))
    /\ FEq(result.diversification_score, FInt(75))

\* C10: for a portfolio of exactly one position, whatever its pnl, the
\* report has volatility 0 and sharpe_ratio 0, and no division is raised.
C10_SinglePositionNoRisk ==
    (IsPortfolioCall /\ Len(args[1]) = 1) =>
        /\ ~IsRaised(result)
        /\ FEq(result.volatility, FZero)
        /\ FEq(result.sharpe_ratio, FZero)

C10_Witness ==
    /\ IsPortfolioCall
    /\ Len(args[1]) = 1
    /\ FEq(args[1][1].pnl, FInt(1000))
    /\ FEq(result.volatility, FZero)
    /\ FEq(result.sharpe_ratio, FZero)

----------------------------------------------------------------------------
(* detect_mev_opportunities                                                *)

mev_types == <<"sandwich_attack", "arbitrage", "liquidation", "front_running">>

\* What one pass of the loop draws from random and from the clock:
\* random.choice(mev_types), random.uniform(100, 5000),
\* random.randint(150000, 500000), random.uniform(0.7, 0.95), the SHA-256
\* of the time, random.randint(1, 15).
MevDraw(type, estimated_profit, gas_required, confidence_score, target_transaction, execution_window) ==
    [type               |-> type,
     estimated_profit   |-> estimated_profit,
     gas_required       |-> gas_required,
     confidence_score   |-> confidence_score,
     target_transaction |-> target_transaction,
     execution_window   |-> execution_window]

\* gas_required * 20 * 1e-9 * 2000, left to right: the int product, then
\* two float products
GasCost(gas_required) ==
    FMul(FMul(FInt(gas_required * 20), FRatio(1, 1000000000)), FInt(2000))

\* The opportunity dict of one pass, after profit_after_gas is assigned
Opportunity(draw) ==
    [type               |-> draw.type,
     estimated_profit   |-> draw.estimated_profit,
     gas_required       |-> draw.gas_required,
     confidence_score   |-> draw.confidence_score,
     target_transaction |-> draw.target_transaction,
     profit_after_gas   |-> FSub(draw.estimated_profit,
                                 GasCost(draw.gas_required)),
     execution_window   |-> draw.execution_window]

\* opportunities after the first n passes of the loop
RECURSIVE OpportunitiesUpTo(_, _)
OpportunitiesUpTo(draws, n) ==
    IF n = 0 THEN <<>>
    ELSE LET opportunities == OpportunitiesUpTo(draws, n - 1)
             opportunity   == Opportunity(draws[n])
         IN  IF FGt(opportunity.profit_after_gas, FInt(50))
             THEN Append(opportunities, opportunity)
             ELSE opportunities

\* x put into a list that is sorted by decreasing profit_after_gas, after
\* the elements whose profit_after_gas is at least its own
InsertByProfit(sorted, x) ==
    LET k == Cardinality({i \in 1..Len(sorted) :
                 FLe(x.profit_after_gas, sorted[i].profit_after_gas)})
    IN  SubSeq(sorted, 1, k) \o <<x>> \o SubSeq(sorted, k + 1, Len(sorted))

RECURSIVE SortedUpTo(_, _)
SortedUpTo(xs, n) ==
    IF n = 0 THEN <<>> ELSE InsertByProfit(SortedUpTo(xs, n - 1), xs[n])

\* The list in the order it was built
Unsorted(xs) == xs

\* sorted(xs, key=lambda x: x['profit_after_gas'], reverse=True): the sort
\* is stable, elements of equal key keep their order in xs
SortedByProfit(xs) == SortedUpTo(xs, Len(xs))

\* The list the call returns when random and the clock give draws, one for
\* each pass of the loop. block_data is not used.
detect_mev_opportunities(block_data, draws) ==
    SortedByProfit(OpportunitiesUpTo(draws, Len(draws)))

\* ---- inputs of detect_mev_opportunities ----
\* random.randint(0, 3) passes. The draws: the least profit with the most
\* gas and with the least, two draws that differ in their type only, the
\* greatest profit, and a profit between.
MevDraws ==
    {MevDraw(mev_types[1], FInt(100), 500000, FRatio(7, 10), "0x9f86", 1),
     MevDraw(mev_types[2], FInt(100), 150000, FRatio(95, 100), "0x2cf2", 15),
     MevDraw(mev_types[3], FInt(2500), 325000, FRatio(8, 10), "0x9f86", 7),
     MevDraw(mev_types[4], FInt(2500), 325000, FRatio(8, 10), "0x9f86", 7),
     MevDraw(mev_types[2], FRatio(10013, 100), 500000, FRatio(9, 10), "0x6b86", 3),
     MevDraw(mev_types[1], FInt(5000), 150000, FRatio(7, 10), "0xd473", 2)}

BlockData == {[number |-> 18500000]}

CallDetectMev ==
    /\ pc = "idle"
    /\ \E block_data \in BlockData, n \in 0..3 :
         \E draws \in [1..n -> MevDraws] :
           /\ args' = <<block_data, draws>>
           /\ result' = Call("detect_mev_opportunities", <<block_data, draws>>)
    /\ op' = "detect_mev_opportunities"
    /\ pc' = "returned"
    /\ UNCHANGED self

SpecMev == Init /\ [][CallDetectMev \/ Return]_vars

\* C14: detect_mev_opportunities returns at most 3 opportunities, in order
\* of non-increasing profit_after_gas; each has profit_after_gas equal to
\* estimated_profit - gas_required * 20 * 1e-9 * 2000 (that is, the profit
\* less 4 / 100000 of the gas, to within 10^-9) and greater than 50; and
\* the filter discards nothing: as many opportunities are returned as were
\* drawn.
C14_MevSortedNoneDiscarded ==
    (op = "detect_mev_opportunities" /\ pc = "returned")
    => /\ Len(result) <= 3
       /\ \A i \in 1..Len(result) : \A j \in i..Len(result) :
            FLe(result[j].profit_after_gas, result[i].profit_after_gas)
       /\ \A i \in 1..Len(result) :
            /\ FGt(result[i].profit_after_gas, FInt(50))
            /\ CloseTo(result[i].profit_after_gas,
                       Hundredths(result[i].estimated_profit) * 1000
                           - 4 * result[i].gas_required, 100000)
       /\ Len(result) = Len(args[2])

\* Three opportunities were drawn in increasing order of profit, the first
\* the least profit (100) with the most gas (500000), and the call returned
\* all three with the first drawn last, its profit_after_gas about 80.
C14_Witness ==
    /\ op = "detect_mev_opportunities"
    /\ pc = "returned"
    /\ Len(args[2]) = 3
    /\ args[2][1].estimated_profit = FInt(100)
    /\ args[2][1].gas_required = 500000
    /\ args[2][2].estimated_profit = FInt(2500)
    /\ args[2][3].estimated_profit = FInt(5000)
    /\ Len(result) = 3
    /\ result[3].type = args[2][1].type
    /\ result[1].estimated_profit = FInt(5000)
    /\ CloseTo(result[3].profit_after_gas, 80, 1)

----------------------------------------------------------------------------
(* analyze_arbitrage_opportunity                                           *)

\* A dict is the sequence of its <<key, value>> items in insertion order.
\* d[key] = value: a new key goes last, a present key keeps its place.
DictSet(d, key, value) ==
    IF \E i \in 1..Len(d) : d[i][1] = key
    THEN [i \in 1..Len(d) |-> IF d[i][1] = key THEN <<key, value>> ELSE d[i]]
    ELSE Append(d, <<key, value>>)

\* {exchange: random.uniform(1000, 1200) for exchange in exchanges}, after
\* the first n exchanges; draws[i] is the price drawn for exchanges[i]
RECURSIVE ExchangePricesUpTo(_, _, _)
ExchangePricesUpTo(exchanges, draws, n) ==
    IF n = 0 THEN <<>>
    ELSE DictSet(ExchangePricesUpTo(exchanges, draws, n - 1),
                 exchanges[n], draws[n])

\* min(d.values()) and max(d.values()): the first least and the first
\* greatest value; ValueError for an empty dict
MinValue(d) ==
    IF d = <<>> THEN Raised("ValueError")
    ELSE d[CHOOSE i \in 1..Len(d) :
             /\ \A j \in 1..Len(d) : FLe(d[i][2], d[j][2])
             /\ \A j \in 1..(i - 1) : FLt(d[i][2], d[j][2])][2]

MaxValue(d) ==
    IF d = <<>> THEN Raised("ValueError")
    ELSE d[CHOOSE i \in 1..Len(d) :
             /\ \A j \in 1..Len(d) : FLe(d[j][2], d[i][2])
             /\ \A j \in 1..(i - 1) : FLt(d[j][2], d[i][2])][2]

\* The key of the last item with the price
LastWithPrice(d, price) ==
    d[CHOOSE i \in 1..Len(d) :
        /\ FEq(d[i][2], price)
        /\ \A j \in (i + 1)..Len(d) : ~FEq(d[j][2], price)][1]

\* [ex for ex, p in d.items() if p == price][0]
FirstWithPrice(d, price) ==
    d[CHOOSE i \in 1..Len(d) :
        /\ FEq(d[i][2], price)
        /\ \A j \in 1..(i - 1) : ~FEq(d[j][2], price)][1]

\* The threshold test with >= for >
ProfitableFromThreshold(profit_percentage) ==
    FLe(FRatio(5, 10), profit_percentage)

\* profit_percentage > 0.5
Profitable(profit_percentage) == FGt(profit_percentage, FRatio(5, 10))

\* The dict the call returns, or the exception it raises, when random gives
\* draws for the prices and gas_cost_estimate, and the clock now.
analyze_arbitrage_opportunity(token_symbol, exchanges, draws, gas_cost_estimate, now) ==
    LET exchange_prices ==
            ExchangePricesUpTo(exchanges, draws, Len(exchanges))
        min_price == MinValue(exchange_prices)
        max_price == MaxValue(exchange_prices)
        spread == PyTrueDiv(FSub(max_price, min_price), min_price)
        profit_percentage == FMul(spread, FInt(100))
    IN  IF IsRaised(min_price) THEN min_price
        ELSE IF IsRaised(spread) THEN spread
        ELSE [token             |-> token_symbol,
              profitable        |-> Profitable(profit_percentage),
              profit_percentage |-> PyRound(profit_percentage, 4),
              buy_exchange      |-> FirstWithPrice(exchange_prices, min_price),
              sell_exchange     |-> FirstWithPrice(exchange_prices, max_price),
              buy_price         |-> min_price,
              sell_price        |-> max_price,
              volume_required   |-> 10000,
              gas_cost_estimate |-> gas_cost_estimate,
              timestamp         |-> now]

\* ---- inputs of analyze_arbitrage_opportunity ----
\* Lists of up to MaxExchanges exchanges, one of them with an exchange
\* twice, and for each exchange a price of random.uniform(1000, 1200):
\* 1000, 1005 (0.5% above 1000), 1005.01 and 1200.
MaxExchanges == 3

Exchanges == <<"binance", "coinbase", "kraken", "uniswap">>

ExchangeLists ==
    {[i \in 1..n |-> Exchanges[i]] : n \in 0..MaxExchanges}
        \cup {<<Exchanges[2], Exchanges[1]>>,
              <<Exchanges[1], Exchanges[2], Exchanges[1]>>}

ArbitragePrices ==
    {FInt(1000), FInt(1005), FRatio(100501, 100), FInt(1200)}

GasCostEstimates == {FInt(20), FRatio(775, 10)}

CallArbitrage ==
    /\ pc = "idle"
    /\ \E exchanges \in ExchangeLists, now \in Clock,
          gas_cost_estimate \in GasCostEstimates :
         \E draws \in [1..Len(exchanges) -> ArbitragePrices] :
           /\ args' = <<"ETH", exchanges, draws>>
           /\ result' = Call("analyze_arbitrage_opportunity",
                              <<"ETH", exchanges, draws, gas_cost_estimate, now>>)
    /\ op' = "analyze_arbitrage_opportunity"
    /\ pc' = "returned"
    /\ UNCHANGED self

SpecArbitrage == Init /\ [][CallArbitrage \/ Return]_vars

IsArbitrageReport ==
    op = "analyze_arbitrage_opportunity" /\ pc = "returned" /\ ~IsRaised(result)

\* The price an exchange has: the last one drawn for it
PriceOf(exchanges, draws, exchange) ==
    draws[CHOOSE i \in 1..Len(exchanges) :
            /\ exchanges[i] = exchange
            /\ \A j \in (i + 1)..Len(exchanges) : exchanges[j] # exchange]

\* The first of the supplied exchanges whose price is the given one
FirstSupplied(exchanges, draws, price) ==
    exchanges[CHOOSE i \in 1..Len(exchanges) :
        /\ FEq(PriceOf(exchanges, draws, exchanges[i]), price)
        /\ \A j \in 1..(i - 1) :
             ~FEq(PriceOf(exchanges, draws, exchanges[j]), price)]

\* C5: in a report of analyze_arbitrage_opportunity, buy_price is the least
\* and sell_price the greatest of the exchanges' prices, buy_exchange is an
\* exchange with the least price and sell_exchange one with the greatest,
\* and each is the first such exchange in the order the exchanges were
\* supplied.
C5_BuyAtMinSellAtMaxFirstOnTies ==
    IsArbitrageReport =>
      LET exchanges == args[2]
          draws     == args[3]
          prices    == {PriceOf(exchanges, draws, exchanges[i]) :
                           i \in 1..Len(exchanges)}
      IN  /\ result.buy_price \in prices
          /\ result.sell_price \in prices
          /\ \A p \in prices : FLe(result.buy_price, p) /\ FLe(p, result.sell_price)
          /\ result.buy_exchange
               = FirstSupplied(exchanges, draws, result.buy_price)
          /\ result.sell_exchange
               = FirstSupplied(exchanges, draws, result.sell_price)

\* Three exchanges were supplied, the first two with the least price
\* (1000): the report buys at the first exchange and sells at the third.
C5_Witness ==
    /\ IsArbitrageReport
    /\ args[2] = <<"binance", "coinbase", "kraken">>
    /\ args[3] = <<FInt(1000), FInt(1000), FInt(1200)>>
    /\ result.buy_exchange = "binance"
    /\ result.sell_exchange = "kraken"

\* All three exchanges have the same price: the first is both the buy and
\* the sell exchange.
C5_WitnessAllEqual ==
    /\ IsArbitrageReport
    /\ args[2] = <<"binance", "coinbase", "kraken">>
    /\ args[3] = <<FInt(1005), FInt(1005), FInt(1005)>>
    /\ result.buy_exchange = "binance"
    /\ result.sell_exchange = "binance"

\* C6: profit_percentage is (max_price - min_price) / min_price * 100
\* (rounded to 4 places in the report), and profitable is true exactly when
\* the percentage is greater than 0.5: a spread of exactly 0.5% is not
\* profitable.
C6_ProfitableIffAboveHalfPercent ==
    IsArbitrageReport =>
      LET lo == Hundredths(result.buy_price)
          hi == Hundredths(result.sell_price)
      IN  /\ result.profitable = (200 * (hi - lo) > lo)
          /\ FLe(FAbs(FSub(result.profit_percentage,
                           FRatio(100 * (hi - lo), lo))),
                 FRatio(50001, 1000000000))

\* The prices are 1000 and 1005, a spread of exactly 0.5%: the report has
\* profit_percentage 0.5 and is not profitable.
C6_Witness ==
    /\ IsArbitrageReport
    /\ args[3] = <<FInt(1000), FInt(1005)>>
    /\ result.profit_percentage = FRatio(5, 10)
    /\ result.profitable = FALSE

\* The prices are 1000 and 1005.01: profitable.
C6_WitnessProfitable ==
    /\ IsArbitrageReport
    /\ args[3] = <<FInt(1000), FRatio(100501, 100)>>
    /\ result.profitable = TRUE

----------------------------------------------------------------------------
(* optimize_liquidity_provision and its helpers                            *)

PoolData(pool_address, token0, token1, fee_tier, tvl, volume_24h, apy, impermanent_loss_risk) ==
    [pool_address          |-> pool_address,
     token0                |-> token0,
     token1                |-> token1,
     fee_tier              |-> fee_tier,
     tvl                   |-> tvl,
     volume_24h            |-> volume_24h,
     apy                   |-> apy,
     impermanent_loss_risk |-> impermanent_loss_risk]

_calculate_optimal_range(pool) ==
    LET current_price == FInt(2000)
        volatility    == FRatio(5, 100)
    IN  [lower_bound   |-> FMul(current_price,
                                FSub(FInt(1), FMul(volatility, FInt(2)))),
         upper_bound   |-> FMul(current_price,
                                FAdd(FInt(1), FMul(volatility, FInt(2)))),
         current_price |-> current_price]

_calculate_position_metrics(pool, capital) ==
    [daily_fees  |-> FDiv(FMul(capital, FDiv(pool.apy, FInt(365))), FInt(100)),
     il_estimate |-> FMul(capital, FDiv(pool.impermanent_loss_risk, FInt(100))),
     net_apy     |-> FSub(pool.apy, pool.impermanent_loss_risk)]

\* _calculate_risk_score without max(0, ...) and min(..., 100)
RiskScoreUnclamped(pool) ==
    LET tvl_score ==
            PyMin(FMul(FDiv(pool.tvl, FInt(10000000)), FInt(30)), FInt(30))
        volume_score ==
            PyMin(FMul(FDiv(pool.volume_24h, FInt(1000000)), FInt(20)), FInt(20))
        il_penalty == FMul(pool.impermanent_loss_risk, FInt(2))
    IN  FSub(FSub(FSub(FInt(100), tvl_score), volume_score), il_penalty)

_calculate_risk_score(pool) ==
    LET tvl_score ==
            PyMin(FMul(FDiv(pool.tvl, FInt(10000000)), FInt(30)), FInt(30))
        volume_score ==
            PyMin(FMul(FDiv(pool.volume_24h, FInt(1000000)), FInt(20)), FInt(20))
        il_penalty == FMul(pool.impermanent_loss_risk, FInt(2))
        risk_score ==
            PyMax(FInt(0),
                  FSub(FSub(FSub(FInt(100), tvl_score), volume_score),
                       il_penalty))
    IN  PyMin(risk_score, FInt(100))

\* _generate_recommendation with >= for > at the three thresholds
RecommendationFromThreshold(pool, metrics) ==
    IF FLe(FInt(15), metrics.net_apy)
    THEN "STRONG BUY - Excellent yield opportunity with manageable risk"
    ELSE IF FLe(FInt(8), metrics.net_apy)
    THEN "BUY - Good yield opportunity, monitor impermanent loss"
    ELSE IF FLe(FInt(3), metrics.net_apy)
    THEN "HOLD - Moderate opportunity, consider alternatives"
    ELSE "AVOID - Poor risk-adjusted returns"

_generate_recommendation(pool, metrics) ==
    IF FGt(metrics.net_apy, FInt(15))
    THEN "STRONG BUY - Excellent yield opportunity with manageable risk"
    ELSE IF FGt(metrics.net_apy, FInt(8))
    THEN "BUY - Good yield opportunity, monitor impermanent loss"
    ELSE IF FGt(metrics.net_apy, FInt(3))
    THEN "HOLD - Moderate opportunity, consider alternatives"
    ELSE "AVOID - Poor risk-adjusted returns"

\* The dict the call returns when random gives tvl, volume_24h, apy and
\* impermanent_loss_risk for the mock pool.
optimize_liquidity_provision(pool_address, capital_amount, tvl, volume_24h, apy, impermanent_loss_risk) ==
    LET mock_pool == PoolData(pool_address, "USDC", "ETH", FRatio(3, 10),
                              tvl, volume_24h, apy, impermanent_loss_risk)
        optimal_range    == _calculate_optimal_range(mock_pool)
        position_metrics == _calculate_position_metrics(mock_pool, capital_amount)
    IN  [pool_info                 |-> mock_pool,
         recommended_allocation    |->
             PyMin(FMul(capital_amount, FRatio(8, 10)), FInt(50000)),
         optimal_price_range       |-> optimal_range,
         expected_daily_fees       |-> position_metrics.daily_fees,
         impermanent_loss_estimate |-> position_metrics.il_estimate,
         net_apy_estimate          |-> position_metrics.net_apy,
         risk_score                |-> _calculate_risk_score(mock_pool),
         recommendation            |->
             _generate_recommendation(mock_pool, position_metrics)]

\* ---- inputs of optimize_liquidity_provision ----
\* The ends of random.uniform(10000000, 100000000) and of
\* random.uniform(1000000, 10000000); of random.uniform(5, 25) the values
\* 13, 20, 23 and 25 and of random.uniform(5, 20) the values 5, 10 and 20,
\* whose differences lie on, between and beyond the thresholds 3, 8 and 15.
TvlDraws    == {FInt(10000000), FInt(100000000)}
VolumeDraws == {FInt(1000000), FInt(10000000)}
ApyDraws    == {FInt(13), FInt(20), FInt(23), FInt(25)}
IlRiskDraws == {FInt(5), FInt(10), FInt(20)}
Capitals    == {FInt(0), FInt(1000), FInt(100000)}

CallOptimizeLiquidity ==
    /\ pc = "idle"
    /\ \E capital_amount \in Capitals, tvl \in TvlDraws,
          volume_24h \in VolumeDraws, apy \in ApyDraws,
          impermanent_loss_risk \in IlRiskDraws :
         /\ args' = <<"0xpool", capital_amount>>
         /\ result' = Call("optimize_liquidity_provision",
                            <<"0xpool", capital_amount, tvl, volume_24h, apy,
                              impermanent_loss_risk>>)
    /\ op' = "optimize_liquidity_provision"
    /\ pc' = "returned"
    /\ UNCHANGED self

SpecLiquidity == Init /\ [][CallOptimizeLiquidity \/ Return]_vars

\* The integer a float of integer value stands for
Whole(x) == FSigned(x, BToInt(FScaled(x, 0)))

\* C7: the recommendation is STRONG BUY when net_apy > 15, BUY when
\* 8 < net_apy <= 15, HOLD when 3 < net_apy <= 8 and AVOID when
\* net_apy <= 3: the values 15, 8 and 3 fall in the lower tier.
C7_RecommendationTiers ==
    (op = "optimize_liquidity_provision" /\ pc = "returned") =>
      LET net_apy == Whole(FSub(result.pool_info.apy,
                                result.pool_info.impermanent_loss_risk))
      IN  result.recommendation =
            IF net_apy > 15
            THEN "STRONG BUY - Excellent yield opportunity with manageable risk"
            ELSE IF net_apy > 8
            THEN "BUY - Good yield opportunity, monitor impermanent loss"
            ELSE IF net_apy > 3
            THEN "HOLD - Moderate opportunity, consider alternatives"
            ELSE "AVOID - Poor risk-adjusted returns"

\* A pool with apy 20 and impermanent_loss_risk 5, net_apy exactly 15, got
\* the recommendation BUY.
C7_Witness ==
    /\ op = "optimize_liquidity_provision"
    /\ pc = "returned"
    /\ result.net_apy_estimate = FInt(15)
    /\ result.recommendation
         = "BUY - Good yield opportunity, monitor impermanent loss"

\* net_apy exactly 8 got HOLD
C7_WitnessHold ==
    /\ op = "optimize_liquidity_provision"
    /\ pc = "returned"
    /\ result.net_apy_estimate = FInt(8)
    /\ result.recommendation
         = "HOLD - Moderate opportunity, consider alternatives"

\* net_apy exactly 3 got AVOID
C7_WitnessAvoid ==
    /\ op = "optimize_liquidity_provision"
    /\ pc = "returned"
    /\ result.net_apy_estimate = FInt(3)
    /\ result.recommendation = "AVOID - Poor risk-adjusted returns"

\* net_apy 18 got STRONG BUY
C7_WitnessStrongBuy ==
    /\ op = "optimize_liquidity_provision"
    /\ pc = "returned"
    /\ result.net_apy_estimate = FInt(18)
    /\ result.recommendation
         = "STRONG BUY - Excellent yield opportunity with manageable risk"

\* ---- inputs of _calculate_risk_score ----
\* Pools within and beyond what optimize_liquidity_provision draws: tvl and
\* volume_24h from 0, impermanent_loss_risk from -5 (a score above 100
\* before the clamp) to 60 (a score below 0).
RiskPools ==
    {PoolData("0xpool", "USDC", "ETH", FRatio(3, 10), FInt(tvl), FInt(volume),
              FInt(10), FRatio(il, 2)) :
        tvl \in {0, 5000000, 10000000, 100000000},
        volume \in {0, 500000, 1000000, 10000000},
        il \in {-10, 0, 10, 25, 40, 80, 120}}

CallRiskScore ==
    /\ pc = "idle"
    /\ \E pool \in RiskPools :
         /\ args' = <<pool>>
         /\ result' = Call("_calculate_risk_score", <<pool>>)
    /\ op' = "_calculate_risk_score"
    /\ pc' = "returned"
    /\ UNCHANGED self

SpecRiskScore == Init /\ [][CallRiskScore \/ Return]_vars

\* 100 - min(tvl / 1e7 * 30, 30) - min(volume_24h / 1e6 * 20, 20)
\* - impermanent_loss_risk * 2, in hundredths, for a pool whose tvl is a
\* multiple of 10000 / 3 and whose volume_24h is one of 500
RiskHundredths(pool) ==
    LET tvl_score    == (Whole(pool.tvl) * 3) \div 10000
        volume_score == Whole(pool.volume_24h) \div 500
    IN  10000 - (IF tvl_score < 3000 THEN tvl_score ELSE 3000)
              - (IF volume_score < 2000 THEN volume_score ELSE 2000)
              - Hundredths(pool.impermanent_loss_risk) * 2

\* C8: the risk score lies in [0, 100], and it is 100 - min(tvl/1e7*30, 30)
\* - min(volume_24h/1e6*20, 20) - impermanent_loss_risk*2 whenever that lies
\* in [0, 100]; below 0 the score is 0 and above 100 it is 100.
C8_RiskScoreClamped ==
    (op = "_calculate_risk_score" /\ pc = "returned") =>
      LET expected == RiskHundredths(args[1])
      IN  /\ FLe(FInt(0), result) /\ FLe(result, FInt(100))
          /\ (0 <= expected /\ expected <= 10000)
                => CloseTo(result, expected, 100)
          /\ expected < 0 => FEq(result, FInt(0))
          /\ expected > 10000 => FEq(result, FInt(100))

\* A pool with tvl 5000000, volume_24h 500000 and impermanent_loss_risk
\* 12.5 has the score 100 - 15 - 10 - 25 = 50, no clamp applying.
C8_Witness ==
    /\ op = "_calculate_risk_score"
    /\ pc = "returned"
    /\ args[1].tvl = FInt(5000000)
    /\ args[1].volume_24h = FInt(500000)
    /\ args[1].impermanent_loss_risk = FRatio(25, 2)
    /\ result = FInt(50)

\* impermanent_loss_risk 60 alone takes the expression below 0: score 0
C8_WitnessFloor ==
    /\ op = "_calculate_risk_score"
    /\ pc = "returned"
    /\ args[1].impermanent_loss_risk = FInt(60)
    /\ FEq(result, FInt(0))

\* impermanent_loss_risk -5 with no tvl and no volume: 110 before the
\* clamp, score 100
C8_WitnessCeiling ==
    /\ op = "_calculate_risk_score"
    /\ pc = "returned"
    /\ args[1].impermanent_loss_risk = FInt(-5)
    /\ args[1].tvl = FInt(0)
    /\ args[1].volume_24h = FInt(0)
    /\ FEq(result, FInt(100))

----------------------------------------------------------------------------
(* The operators and methods by name                                       *)

\* The operator named f applied to its operands.
Apply(f, operands) ==
    LET a == operands[1]
        b == operands[2]
        c == operands[3]
        d == operands[4]
    IN  CASE f = "BMulSmall"   -> BMulSmallOf(a, b)
          [] f = "BNorm"         -> BNormOf(a)
          [] f = "BAdd"          -> BAddOf(a, b)
          [] f = "BSub"          -> BSubOf(a, b)
          [] f = "BCmp"          -> BCmpOf(a, b)
          [] f = "BShiftLimbs"   -> BShiftLimbsOf(a, b)
          [] f = "BShr"          -> BShrOf(a, b)
          [] f = "BBitLen"       -> BBitLenOf(a)
          [] f = "FCmpMag"       -> FCmpMagOf(a, b)
          [] f = "FRoundBits"    -> FRoundBitsOf(a, b, c, d, operands[5])
          [] f = "BShl"        -> BShlOf(a, b)
          [] f = "FRound"      -> FRoundOf(a, b, c, d)
          [] f = "FAdd"        -> FAddOf(a, b)
          [] f = "FMul"        -> FMulOf(a, b)
          [] f = "BMul"        -> BMulOf(a, b)
          [] f = "FDiv"        -> FDivOf(a, b)
          [] f = "FInt"        -> FIntOf(a)
          [] f = "BDivDigit"   -> BDivDigitOf(a, b)
          [] f = "BDivStep"    -> BDivStepOf(a, b)
          [] f = "BDivIter"    -> BDivIterOf(a, b, c)
          [] f = "BDivDigits"  -> BDivDigitsOf(a, b, c)
          [] f = "BSqrtStep"   -> BSqrtStepOf(a)
          [] f = "BSqrtIter"   -> BSqrtIterOf(a, b)
          [] f = "BSqrtRem"    -> BSqrtRemOf(a)
          [] f = "FSqrt"       -> FSqrtOf(a)
          [] f = "FRatio"      -> FRatioOf(a, b)
          [] f = "FSum"        -> FSumOf(a)
          [] f = "BRoundShift" -> BRoundShiftOf(a, b)
          [] f = "FScaled"     -> FScaledOf(a, b)
          [] f = "PyRound"     -> PyRoundOf(a, b)
          [] f = "DecimalFromStr" -> DecimalFromStrOf(a)
          [] f = "FNeg"        -> FNegOf(a)
          [] f = "FAbs"        -> FAbsOf(a)
          [] f = "FCmp"        -> FCmpOf(a, b)
          [] f = "FSub"        -> FSubOf(a, b)
          [] f = "FSquare"     -> FSquareOf(a)
          [] f = "PyTrueDiv"   -> PyTrueDivOf(a, b)
          [] f = "PyMax"       -> PyMaxOf(a, b)
          [] f = "PyMin"       -> PyMinOf(a, b)
          [] f = "DecimalToFloat" -> DecimalToFloatOf(a)
          [] f = "DecimalMul"  -> DecimalMulOf(a, b)
          [] f = "DecimalAdd"  -> DecimalAddOf(a, b)
          [] f = "DecimalSub"  -> DecimalSubOf(a, b)
          [] f = "DecimalSum"  -> DecimalSumOf(a)
          [] f = "calculate_impermanent_loss" ->
                 calculate_impermanent_loss(a, b)
          [] f = "analyze_arbitrage_opportunity" ->
                 analyze_arbitrage_opportunity(a, b, c, d, operands[5])
          [] f = "calculate_portfolio_metrics" ->
                 calculate_portfolio_metrics(a, b)
          [] f = "detect_mev_opportunities" ->
                 detect_mev_opportunities(a, b)
          [] f = "optimize_liquidity_provision" ->
                 optimize_liquidity_provision(a, b, c, d, operands[5],
                                              operands[6])
          [] f = "_calculate_risk_score" -> _calculate_risk_score(a)

\* Apply(f, operands), with the operands evaluated first and once.
Call(f, operands) == CHOOSE r \in {Apply(f, o) : o \in {operands}} : TRUE

----------------------------------------------------------------------------
(* The instance across calls                                               *)
(*                                                                         *)
(* No method body assigns to an attribute of self or changes an object an  *)
(* attribute holds: each call above leaves self as it is. Threads that     *)
(* call methods of one instance share nothing but self; every step of      *)
(* every thread is one of the steps below.                                 *)

\* ---- a sample of the inputs of each method ----
SampleRatioArgs ==
    {<<FRatio(2, 2), FRatio(3, 2)>>, <<FInt(0), FRatio(3, 2)>>,
     <<FRatio(3, 2), FRatio(3, 2)>>}

SamplePortfolioArgs ==
    {<<<<>>>>,
     <<<<ValuePosition(1, Decimal(2, 0), FRatio(3, 1), FRatio(5, 1))>>>>,
     <<<<AllocationPosition(1, FInt(50)), AllocationPosition(2, FInt(30))>>>>}

SampleMevArgs ==
    {<<block_data, draws>> :
        block_data \in BlockData,
        draws \in UNION {[1..n -> {d \in MevDraws : d.estimated_profit = FInt(100)}] :
                            n \in 0..2}}

SampleArbitrageArgs ==
    {<<"ETH", <<>>, <<>>>>,
     <<"ETH", <<Exchanges[1], Exchanges[2]>>, <<FInt(1000), FInt(1200)>>>>,
     <<"ETH", <<Exchanges[1], Exchanges[2], Exchanges[1]>>,
       <<FInt(1000), FInt(1005), FInt(1200)>>>>}

SampleLiquidityArgs == {<<"0xpool", FInt(1000)>>}

\* Calls of the six public methods in any order, validate_address on all
\* of its inputs and the others on the samples.
NextCall ==
    \/ CallValidateAddress
    \/ args' \in SampleRatioArgs /\ CallImpermanentLoss
    \/ args' \in SampleArbitrageArgs /\ CallArbitrage
    \/ args' \in SamplePortfolioArgs /\ CallPortfolioMetrics
    \/ args' \in SampleMevArgs /\ CallDetectMev
    \/ args' \in SampleLiquidityArgs /\ CallOptimizeLiquidity
    \/ Return

SpecInstance == Init /\ [][NextCall]_vars

C13_WitnessAddress ==
    op = "validate_address" /\ pc = "returned" /\ result = TRUE
        /\ self.last_update = NoValue
C13_WitnessLoss ==
    op = "calculate_impermanent_loss" /\ pc = "returned"
        /\ self.last_update = NoValue
C13_WitnessArbitrage ==
    op = "analyze_arbitrage_opportunity" /\ pc = "returned"
        /\ ~IsRaised(result) /\ self.price_cache = <<>>
C13_WitnessMev ==
    op = "detect_mev_opportunities" /\ pc = "returned" /\ Len(result) = 2
        /\ self.last_update = NoValue
C13_WitnessLiquidity ==
    op = "optimize_liquidity_provision" /\ pc = "returned"
        /\ self.pool_cache = <<>>

----------------------------------------------------------------------------
Next ==
    \/ CallValidateAddress
    \/ CallImpermanentLoss
    \/ CallArbitrage
    \/ CallPortfolioMetrics
    \/ CallDetectMev
    \/ CallOptimizeLiquidity
    \/ CallRiskScore
    \/ Return

Spec == Init /\ [][Next]_vars

=============================================================================
